---- MODULE Spec2Model ----
(***************************************************************************)
(* Model of the NER inference server: the startup sequence of              *)
(* main.py:lifespan and NERInferenceEngine.load_model (provider            *)
(* resolution, session construction, read-back of the active provider,     *)
(* warm-up, readiness), and the request path main.py:infer ->              *)
(* NERInferenceEngine.infer.                                               *)
(*                                                                         *)
(* Each handler is split at its statements, and the steps of different     *)
(* callers interleave freely.  Under asyncio the handlers contain no       *)
(* suspension point, so every run of the program is one of the             *)
(* interleavings below; a safety property of the model is a safety         *)
(* property of the program.                                                *)
(*                                                                         *)
(* numpy arrays are records [shape, data]: shape is the array's shape and  *)
(* data the nested list that tolist() gives.  Python's 0-based x[0] is     *)
(* x[1] here.                                                              *)
(***************************************************************************)
EXTENDS Integers, Sequences, FiniteSets, TLC

\* ------------------------------------------------------------------ bounds
\* Request slots (handlers in flight at the same time).
MaxReqs == 2
\* Longest input_ids list a request carries.
MaxLen == 2
\* Largest number of labels of the loaded model (at least 2).
MaxLabels == 3
\* Calls of load_model that construct a session on one engine object.
MaxLoads == 2

\* ------------------------------------------------------- program constants
\* for i in range(3)
WarmupRuns == 3
\* np.ones((1, 128))
WarmupSeqLen == 128
\* 'trt_builder_optimization_level': 3
TrtOptLevel == 3
\* 'device_id': 0
CudaDeviceId == 0
\* status_code=503
StatusUnavailable == 503
\* status_code=500
StatusInternalError == 500
\* the status of a response the handler returns normally
StatusOk == 200

\* 'trt_max_workspace_size': 2 * 1024 * 1024 * 1024 bytes, held in units of
\* 1024 bytes (the byte count does not fit the checker's 32-bit integers).
TrtMaxWorkspaceKiB == 2 * 1024 * 1024

TRT == "TensorrtExecutionProvider"
CUDA == "CUDAExecutionProvider"
CPU == "CPUExecutionProvider"
\* A provider the runtime can report that load_model does not ask about.
OtherProvider == "AzureExecutionProvider"

\* Every provider name ort.get_available_providers() can return.
KnownProviders == {TRT, CUDA, CPU, OtherProvider}

Reqs == 1..MaxReqs
Lens == 0..MaxLen
\* The lengths of a request's two lists: equal, or the mask one longer.
MaskLens(L) == {L, L + 1}

VARIABLES
    \* the environment: fixed for the life of the process
    model_ok,          \* whether some backend can load the file at model_path
    num_labels,        \* last dimension of the model's logits output
    trt_cache_path,    \* TRT_CACHE_PATH
    cache_dir_exists,  \* whether trt_cache_path exists on disk
    \* main.py globals and the lifespan coroutine
    engine_exists,     \* engine is not None
    pc,                \* position of lifespan / load_model
    serving,           \* lifespan has reached its yield
    \* NERInferenceEngine fields
    enable_fp16,
    session,
    is_ready,
    active_provider,
    \* load_model locals (reset when load_model returns or raises)
    available_providers,
    providers,
    warm_i,
    \* request handlers
    req,
    \* history: some session.run issued by infer has raised
    ever_failed,
    \* the last response of GET /health
    health

envVars == <<model_ok, num_labels, trt_cache_path>>
engineVars == <<enable_fp16, session, is_ready, active_provider>>
loadVars == <<available_providers, providers, warm_i>>
vars == <<model_ok, num_labels, trt_cache_path, cache_dir_exists, engine_exists,
          pc, serving, enable_fp16, session, is_ready, active_provider,
          available_providers, providers, warm_i, req, ever_failed, health>>

\* ---------------------------------------------------------------- tensors
\* np.array([xs], dtype=np.int64): one row holding xs.
BatchOf(xs) == [shape |-> <<1, Len(xs)>>, data |-> <<xs>>]

\* np.ones((1, n), dtype=np.int64)
Ones(n) == [shape |-> <<1, n>>, data |-> <<[i \in 1..n |-> 1]>>]

\* t[0] is defined for an array whose first dimension is not empty.
CanIndex0(t) == Len(t.shape) >= 1 /\ t.shape[1] >= 1

\* t[0]
Index0(t) == [shape |-> Tail(t.shape), data |-> t.data[1]]

\* The logits array the model computes for a [1, L] input: [1, L, num_labels].
LogitsFor(L) ==
    [shape |-> <<1, L, num_labels>>,
     data  |-> <<[i \in 1..L |-> [j \in 1..num_labels |-> 0]]>>]

NoTensor == [shape |-> <<>>, data |-> <<>>]

\* ---------------------------------------------------------------- resolver
NoOptions == [none |-> TRUE]

\* Mutant: reduced precision is switched on whatever the engine's flag says.
TrtOptionsFp16On(fp16, cache) ==
    [trt_fp16_enable |-> TRUE,
     trt_engine_cache_enable |-> TRUE,
     trt_engine_cache_path |-> cache,
     trt_max_workspace_kib |-> TrtMaxWorkspaceKiB,
     trt_builder_optimization_level |-> TrtOptLevel]

\* inference.py:50-56
TrtOptions(fp16, cache) ==
    [trt_fp16_enable |-> fp16,
     trt_engine_cache_enable |-> TRUE,
     trt_engine_cache_path |-> cache,
     trt_max_workspace_kib |-> TrtMaxWorkspaceKiB,
     trt_builder_optimization_level |-> TrtOptLevel]

\* inference.py:62-65
CudaOptions ==
    [device_id |-> CudaDeviceId,
     arena_extend_strategy |-> "kSameAsRequested"]

\* Mutant: CPU is appended only when the runtime reports it.
BuildProviderListCpuIfReported(available, fp16, cache) ==
    (IF TRT \in available
        THEN <<[name |-> TRT, options |-> TrtOptions(fp16, cache)]>>
        ELSE <<>>)
    \o (IF CUDA \in available
        THEN <<[name |-> CUDA, options |-> CudaOptions]>>
        ELSE <<>>)
    \o (IF CPU \in available
        THEN <<[name |-> CPU, options |-> NoOptions]>>
        ELSE <<>>)

\* Mutant: the two accelerated providers are tried in the other order.
BuildProviderListCudaFirst(available, fp16, cache) ==
    (IF CUDA \in available
        THEN <<[name |-> CUDA, options |-> CudaOptions]>>
        ELSE <<>>)
    \o (IF TRT \in available
        THEN <<[name |-> TRT, options |-> TrtOptions(fp16, cache)]>>
        ELSE <<>>)
    \o <<[name |-> CPU, options |-> NoOptions]>>

\* inference.py:46-70: the provider list load_model builds.
BuildProviderList(available, fp16, cache) ==
    (IF TRT \in available
        THEN <<[name |-> TRT, options |-> TrtOptions(fp16, cache)]>>
        ELSE <<>>)
    \o (IF CUDA \in available
        THEN <<[name |-> CUDA, options |-> CudaOptions]>>
        ELSE <<>>)
    \o <<[name |-> CPU, options |-> NoOptions]>>

Names(ps) == [i \in 1..Len(ps) |-> ps[i].name]

\* ----------------------------------------------------------------- sessions
NoSession == [sid |-> 0, reported |-> <<>>, warm |-> 0]

RECURSIVE SubSeqs(_)
\* All sub-sequences of s (order kept).
SubSeqs(s) ==
    IF s = <<>> THEN {<<>>}
    ELSE LET rest == SubSeqs(Tail(s))
         IN rest \cup {<<Head(s)>> \o r : r \in rest}

\* What session.get_providers() may return for a session built from the
\* requested names: the providers the runtime engaged, in priority order.
ReportedProviders(names) == SubSeqs(names)

\* Mutant: an empty report leaves the provider name empty.
ActiveProviderOfOrEmpty(active_providers) ==
    IF active_providers # <<>> THEN active_providers[1] ELSE ""

\* Mutant: the provider asked for first is taken to be the active one.
ActiveProviderOfRequested(active_providers) == providers[1].name

\* inference.py:85
ActiveProviderOf(active_providers) ==
    IF active_providers # <<>> THEN active_providers[1] ELSE "Unknown"

\* Mutant: the loop stops one iteration early.
WarmupContinuesOneShort(i) == i < WarmupRuns - 1

\* inference.py:94: the warm-up loop has another iteration.
WarmupContinues(i) == i < WarmupRuns

\* ----------------------------------------------------------------- requests
IdleReq ==
    [pc |-> "idle", input_ids |-> <<>>, attention_mask |-> <<>>,
     ready_at_call |-> FALSE, ran |-> FALSE,
     cause |-> "none", ret |-> NoTensor, status |-> 0,
     logits |-> <<>>, shape |-> <<>>]

\* A list of n token ids / mask values.
Filler(n) == [i \in 1..n |-> 1]

\* Mutant: the handler only checks that the engine object exists.
HandlerNotReadyEngineOnly == ~engine_exists

\* main.py:93
HandlerNotReady == ~engine_exists \/ ~is_ready

\* Mutant: the session test is inverted.
EngineNotReadyInverted == ~is_ready \/ session # NoSession

\* inference.py:118
EngineNotReady == ~is_ready \/ session = NoSession

\* inference.py:122-125
EngineInputs(input_ids, attention_mask) ==
    [input_ids |-> BatchOf(input_ids), attention_mask |-> BatchOf(attention_mask)]

\* session.run accepts inputs whose two arrays have the same [1, L] shape.
RunAccepts(inputs) == inputs.input_ids.shape = inputs.attention_mask.shape

\* The output list of a session.run that returns: the logits come first.
RunOutputs(inputs) == <<LogitsFor(inputs.input_ids.shape[2])>>

\* Mutant: infer strips the batch dimension itself.
EngineInferReturnStripped(outputs) == Index0(outputs[1])

\* inference.py:131: what infer returns from the outputs of session.run.
EngineInferReturn(outputs) == outputs[1]

\* Mutant: the reported shape keeps the batch dimension.
ResponseOfFullShape(logits) ==
    [logits |-> Index0(logits).data, shape |-> logits.shape]

\* main.py:103-106: the response built from what engine.infer returned.
ResponseOf(logits) ==
    [logits |-> Index0(logits).data, shape |-> Tail(logits.shape)]

\* -------------------------------------------------------------------- health
NoHealth == [status |-> "", model_loaded |-> FALSE, provider |-> ""]

\* Mutant: the status only looks at whether the engine object exists.
HealthResponseEngineOnly ==
    [status       |-> IF engine_exists THEN "healthy" ELSE "not_ready",
     model_loaded |-> IF engine_exists THEN is_ready ELSE FALSE,
     provider     |-> IF engine_exists THEN active_provider ELSE ""]

\* main.py:78-82
HealthResponse ==
    [status       |-> IF engine_exists /\ is_ready THEN "healthy" ELSE "not_ready",
     model_loaded |-> IF engine_exists THEN is_ready ELSE FALSE,
     provider     |-> IF engine_exists THEN active_provider ELSE ""]

\* ------------------------------------------------------------------- Init
Init ==
    /\ model_ok \in BOOLEAN
    /\ num_labels \in 2..MaxLabels
    /\ trt_cache_path = "/models/trt_cache"
    /\ cache_dir_exists \in BOOLEAN
    /\ engine_exists = FALSE
    /\ pc = "start"
    /\ serving = FALSE
    /\ enable_fp16 = FALSE
    /\ session = NoSession
    /\ is_ready = FALSE
    /\ active_provider = ""
    /\ available_providers = {}
    /\ providers = <<>>
    /\ warm_i = 0
    /\ req = [r \in Reqs |-> IdleReq]
    /\ ever_failed = FALSE
    /\ health = NoHealth

\* ------------------------------------------------------- lifespan, load_model
\* main.py:34-46 and inference.py:21-32: engine = NERInferenceEngine(...),
\* enable_fp16 read from ENABLE_FP16.
LifespanCreate ==
    /\ pc = "start"
    /\ engine_exists' = TRUE
    /\ enable_fp16' \in BOOLEAN
    /\ session' = NoSession
    /\ is_ready' = FALSE
    /\ active_provider' = ""
    /\ pc' = "makedirs"
    /\ UNCHANGED <<health, envVars, cache_dir_exists, serving, loadVars, req, ever_failed>>

\* Mutant: os.makedirs without exist_ok raises when the directory is there.
MakeDirsNoExistOk ==
    /\ pc = "makedirs"
    /\ IF cache_dir_exists
          THEN pc' = "failed" /\ UNCHANGED cache_dir_exists
          ELSE pc' = "probe" /\ cache_dir_exists' = TRUE
    /\ UNCHANGED <<health, envVars, engine_exists, serving, engineVars, loadVars,
                   req, ever_failed>>

\* inference.py:39: os.makedirs(self.trt_cache_path, exist_ok=True)
MakeDirs ==
    /\ pc = "makedirs"
    /\ cache_dir_exists' = TRUE
    /\ pc' = "probe"
    /\ UNCHANGED <<health, envVars, engine_exists, serving, engineVars, loadVars, req,
                   ever_failed>>

\* inference.py:42: ort.get_available_providers()
ProbeProviders ==
    /\ pc = "probe"
    /\ available_providers' \in SUBSET KnownProviders
    /\ pc' = "resolve"
    /\ UNCHANGED <<health, envVars, cache_dir_exists, engine_exists, serving, engineVars,
                   providers, warm_i, req, ever_failed>>

\* inference.py:46-70
ResolveProviders ==
    /\ pc = "resolve"
    /\ providers' = BuildProviderList(available_providers, enable_fp16,
                                      trt_cache_path)
    /\ pc' = "create"
    /\ UNCHANGED <<health, envVars, cache_dir_exists, engine_exists, serving, engineVars,
                   available_providers, warm_i, req, ever_failed>>

\* inference.py:77-81: ort.InferenceSession(...) returns and is stored.
CreateSession ==
    /\ pc = "create"
    /\ model_ok
    /\ \E rep \in ReportedProviders(Names(providers)) :
          session' = [sid |-> session.sid + 1, reported |-> rep, warm |-> 0]
    /\ pc' = "readback"
    /\ UNCHANGED <<health, envVars, cache_dir_exists, engine_exists, serving, enable_fp16,
                   is_ready, active_provider, loadVars, req, ever_failed>>

\* Mutant: lifespan swallows the exception and goes on to its yield.
StartupRaisesSwallowed ==
    /\ pc' = "loaded"
    /\ UNCHANGED serving

\* What an exception leaving load_model does to the startup: nothing in
\* load_model or lifespan (main.py:48) catches it, so lifespan never yields.
StartupRaises ==
    /\ pc' = "failed"
    /\ UNCHANGED serving

\* inference.py:77-81: ort.InferenceSession(...) raises.
CreateSessionFails ==
    /\ pc = "create"
    /\ ~model_ok
    /\ StartupRaises
    /\ available_providers' = {}
    /\ providers' = <<>>
    /\ warm_i' = 0
    /\ UNCHANGED <<health, envVars, cache_dir_exists, engine_exists, engineVars, req,
                   ever_failed>>

\* inference.py:84-85
ReadBack ==
    /\ pc = "readback"
    /\ active_provider' = ActiveProviderOf(session.reported)
    /\ warm_i' = 0
    /\ pc' = "warmup"
    /\ UNCHANGED <<health, envVars, cache_dir_exists, engine_exists, serving, enable_fp16,
                   session, is_ready, available_providers, providers, req,
                   ever_failed>>

\* inference.py:94-102: one warm-up session.run on the [1, 128] inputs returns.
WarmupRun ==
    /\ pc = "warmup"
    /\ WarmupContinues(warm_i)
    /\ RunAccepts([input_ids |-> Ones(WarmupSeqLen),
                   attention_mask |-> Ones(WarmupSeqLen)])
    /\ session' = [session EXCEPT !.warm = @ + 1]
    /\ warm_i' = warm_i + 1
    /\ UNCHANGED <<health, envVars, cache_dir_exists, engine_exists, pc, serving,
                   enable_fp16, is_ready, active_provider, available_providers,
                   providers, req, ever_failed>>

\* inference.py:95-101: a warm-up session.run raises.
WarmupFails ==
    /\ pc = "warmup"
    /\ WarmupContinues(warm_i)
    /\ StartupRaises
    /\ available_providers' = {}
    /\ providers' = <<>>
    /\ warm_i' = 0
    /\ UNCHANGED <<health, envVars, cache_dir_exists, engine_exists, engineVars, req,
                   ever_failed>>

\* Mutant: load_model returns without setting the flag.
SetReadyForgetsFlag ==
    /\ pc = "warmup"
    /\ ~WarmupContinues(warm_i)
    /\ pc' = "loaded"
    /\ available_providers' = {}
    /\ providers' = <<>>
    /\ warm_i' = 0
    /\ UNCHANGED <<health, envVars, cache_dir_exists, engine_exists, serving,
                   engineVars, req, ever_failed>>

\* inference.py:104-105: the loop is over; is_ready is set and load_model
\* returns.
SetReady ==
    /\ pc = "warmup"
    /\ ~WarmupContinues(warm_i)
    /\ is_ready' = TRUE
    /\ pc' = "loaded"
    /\ available_providers' = {}
    /\ providers' = <<>>
    /\ warm_i' = 0
    /\ UNCHANGED <<health, envVars, cache_dir_exists, engine_exists, serving, enable_fp16,
                   session, active_provider, req, ever_failed>>

\* main.py:48-51: load_model returned; lifespan yields and the app serves.
LifespanYield ==
    /\ pc = "loaded"
    /\ ~serving
    /\ serving' = TRUE
    /\ pc' = "serving"
    /\ UNCHANGED <<health, envVars, cache_dir_exists, engine_exists, engineVars, loadVars,
                   req, ever_failed>>

\* ------------------------------------------------------------ POST /v1/infer
\* main.py:93-101 and inference.py:118-125: the handler is entered with lists
\* of L1 ids and L2 mask values.  Not ready: 503.  Otherwise engine.infer is
\* called inside the try block; its own guard raises RuntimeError, which the
\* handler's except turns into 500; else the inputs go to session.run.
HandleRequest(r, L1, L2) ==
    /\ req[r].pc = "idle"
    /\ IF HandlerNotReady
          THEN req' = [req EXCEPT ![r] =
                  [IdleReq EXCEPT !.pc = "done", !.status = StatusUnavailable,
                                  !.cause = "handler_not_ready",
                                  !.ready_at_call = (is_ready /\ session.sid > 0)]]
       ELSE IF EngineNotReady
          THEN req' = [req EXCEPT ![r] =
                  [IdleReq EXCEPT !.pc = "done", !.status = StatusInternalError,
                                  !.cause = "engine_not_ready",
                                  !.ready_at_call = (is_ready /\ session.sid > 0)]]
       ELSE req' = [req EXCEPT ![r] =
                  [IdleReq EXCEPT !.pc = "running", !.ran = TRUE,
                                  !.input_ids = Filler(L1),
                                  !.attention_mask = Filler(L2),
                                  !.ready_at_call = (is_ready /\ session.sid > 0)]]
    /\ UNCHANGED <<health, envVars, cache_dir_exists, engine_exists, pc, serving,
                   engineVars, loadVars, ever_failed>>

\* Mutant: the inputs live in a buffer shared by the calls in flight, and the
\* run reads what the highest slot in flight left there.
RunReturnsSharedInputs(r) ==
    /\ req[r].pc = "running"
    /\ LET q == CHOOSE q \in Reqs :
                   /\ req[q].pc = "running"
                   /\ \A o \in Reqs : req[o].pc = "running" => o <= q
           inputs == EngineInputs(req[q].input_ids, req[q].attention_mask)
           logits == EngineInferReturn(RunOutputs(inputs))
       IN /\ RunAccepts(inputs)
          /\ IF CanIndex0(logits)
                THEN req' = [req EXCEPT ![r].pc = "done", ![r].ret = logits,
                                 ![r].status = StatusOk,
                                 ![r].logits = ResponseOf(logits).logits,
                                 ![r].shape = ResponseOf(logits).shape]
                ELSE req' = [req EXCEPT ![r].pc = "done", ![r].ret = logits,
                                 ![r].status = StatusInternalError,
                                 ![r].cause = "response"]
    /\ UNCHANGED <<health, envVars, cache_dir_exists, engine_exists, pc, serving,
                   engineVars, loadVars, ever_failed>>

\* inference.py:128-131 and main.py:101-106: session.run returns, infer returns
\* its first output and the handler builds the response from it (an
\* exception while building it is caught like any other: main.py:107).
RunReturns(r) ==
    /\ req[r].pc = "running"
    /\ LET inputs == EngineInputs(req[r].input_ids, req[r].attention_mask)
           logits == EngineInferReturn(RunOutputs(inputs))
       IN /\ RunAccepts(inputs)
          /\ IF CanIndex0(logits)
                THEN req' = [req EXCEPT ![r].pc = "done", ![r].ret = logits,
                                 ![r].status = StatusOk,
                                 ![r].logits = ResponseOf(logits).logits,
                                 ![r].shape = ResponseOf(logits).shape]
                ELSE req' = [req EXCEPT ![r].pc = "done", ![r].ret = logits,
                                 ![r].status = StatusInternalError,
                                 ![r].cause = "response"]
    /\ UNCHANGED <<health, envVars, cache_dir_exists, engine_exists, pc, serving,
                   engineVars, loadVars, ever_failed>>

\* Mutant: a failed inference marks the engine as not ready.
RunRaisesClearsReady(r) ==
    /\ req[r].pc = "running"
    /\ req' = [req EXCEPT ![r] =
                  [IdleReq EXCEPT !.pc = "done", !.status = StatusInternalError,
                                  !.cause = "runtime", !.ran = TRUE,
                                  !.ready_at_call = req[r].ready_at_call]]
    /\ ever_failed' = TRUE
    /\ is_ready' = FALSE
    /\ UNCHANGED <<health, envVars, cache_dir_exists, engine_exists, pc, serving,
                   enable_fp16, session, active_provider, loadVars>>

\* Mutant: a failed inference drops the session.
RunRaisesDropsSession(r) ==
    /\ req[r].pc = "running"
    /\ req' = [req EXCEPT ![r] =
                  [IdleReq EXCEPT !.pc = "done", !.status = StatusInternalError,
                                  !.cause = "runtime", !.ran = TRUE,
                                  !.ready_at_call = req[r].ready_at_call]]
    /\ ever_failed' = TRUE
    /\ session' = NoSession
    /\ active_provider' = ""
    /\ UNCHANGED <<health, envVars, cache_dir_exists, engine_exists, pc, serving,
                   enable_fp16, is_ready, loadVars>>

\* inference.py:128 and main.py:107-112: session.run raises (inputs it does
\* not accept, or a fault of the backend); the handler's except answers 500.
RunRaises(r) ==
    /\ req[r].pc = "running"
    /\ req' = [req EXCEPT ![r] =
                  [IdleReq EXCEPT !.pc = "done", !.status = StatusInternalError,
                                  !.cause = "runtime", !.ran = TRUE,
                                  !.ready_at_call = req[r].ready_at_call]]
    /\ ever_failed' = TRUE
    /\ UNCHANGED <<health, envVars, cache_dir_exists, engine_exists, pc, serving,
                   engineVars, loadVars>>

\* The response has been sent; the slot takes the next request.
Recycle(r) ==
    /\ req[r].pc = "done"
    /\ req' = [req EXCEPT ![r] = IdleReq]
    /\ UNCHANGED <<health, envVars, cache_dir_exists, engine_exists, pc, serving,
                   engineVars, loadVars, ever_failed>>

\* ---------------------------------------------------------------- GET /health
\* main.py:75-82: the handler reads the engine's fields and answers.
Health ==
    /\ health' = HealthResponse
    /\ UNCHANGED <<envVars, cache_dir_exists, engine_exists, pc, serving,
                   engineVars, loadVars, req, ever_failed>>

\* ------------------------------------------------ load_model called again
\* inference.py:34-36: load_model has no guard on is_ready or session, so a
\* caller holding the engine can enter it again once an earlier call is over.
LoadAgain ==
    /\ engine_exists
    /\ serving
    /\ pc \in {"serving", "failed"}
    /\ session.sid < MaxLoads
    /\ pc' = "makedirs"
    /\ UNCHANGED <<health, envVars, cache_dir_exists, engine_exists, serving,
                   engineVars, loadVars, req, ever_failed>>

\* inference.py:105: a later call of load_model returns to its caller.
LoadReturns ==
    /\ pc = "loaded"
    /\ serving
    /\ pc' = "serving"
    /\ UNCHANGED <<health, envVars, cache_dir_exists, engine_exists, serving,
                   engineVars, loadVars, req, ever_failed>>

\* The startup alone: lifespan and the load_model it awaits.
NextStartup ==
    \/ LifespanCreate
    \/ MakeDirs
    \/ ProbeProviders
    \/ ResolveProviders
    \/ CreateSession
    \/ CreateSessionFails
    \/ ReadBack
    \/ WarmupRun
    \/ WarmupFails
    \/ SetReady
    \/ LifespanYield

Next ==
    \/ LifespanCreate
    \/ MakeDirs
    \/ ProbeProviders
    \/ ResolveProviders
    \/ CreateSession
    \/ CreateSessionFails
    \/ ReadBack
    \/ WarmupRun
    \/ WarmupFails
    \/ SetReady
    \/ LifespanYield
    \/ \E r \in Reqs, L1 \in Lens : \E L2 \in MaskLens(L1) : HandleRequest(r, L1, L2)
    \/ \E r \in Reqs : RunReturns(r)
    \/ \E r \in Reqs : RunRaises(r)
    \/ \E r \in Reqs : Recycle(r)

Spec == Init /\ [][Next]_vars

\* The engine object under any sequence of load_model and infer calls: the
\* program's steps, with load_model entered again, and one request in flight
\* at a time.
NextEngine ==
    \/ NextStartup
    \/ LoadAgain
    \/ LoadReturns
    \/ \E L1 \in Lens : \E L2 \in MaskLens(L1) : HandleRequest(1, L1, L2)
    \/ RunReturns(1)
    \/ RunRaises(1)
    \/ Recycle(1)

SpecEngine == Init /\ [][NextEngine]_vars

\* The health query at any moment of any sequence of load_model calls.
NextHealth ==
    \/ NextStartup
    \/ LoadAgain
    \/ LoadReturns
    \/ Health

SpecHealth == Init /\ [][NextHealth]_vars

\* load_model is straight-line code: each statement that can run does run.
SpecLive ==
    /\ Init
    /\ [][NextStartup]_vars
    /\ WF_vars(NextStartup)

\* ================================================================= claims
\* Positions of load_model at which the provider list has been built.
ListBuilt == pc \in {"create", "readback", "warmup"}

Batch(r) == Len(req[r].input_ids)

Served(r) == req[r].pc = "done" /\ req[r].status = StatusOk

\* C1: whatever set of backends the runtime reports and whatever the
\* reduced-precision flag, the provider list load_model builds contains
\* CPUExecutionProvider and CPUExecutionProvider is its last element.
C1_CpuLast ==
    ListBuilt =>
        /\ Len(providers) >= 1
        /\ providers[Len(providers)].name = CPU
        /\ \E i \in 1..Len(providers) : providers[i].name = CPU

C1_Witness ==
    /\ ListBuilt
    /\ CPU \notin available_providers
    /\ TRT \in available_providers
    /\ Len(providers) = 2

\* C2: the provider list is the members of [TensorRT, CUDA] that the runtime
\* reports, in that order, followed by CPU, without duplicates; a provider
\* that is not reported is not emitted; building the list cannot fail.
C2_ExactList ==
    /\ ListBuilt =>
        LET Reported(n) == n \in available_providers
            names == Names(providers)
        IN /\ names = SelectSeq(<<TRT, CUDA>>, Reported) \o <<CPU>>
           /\ \A i, j \in 1..Len(names) : names[i] = names[j] => i = j
           /\ \A i \in 1..Len(names) :
                 names[i] \in (available_providers \cap {TRT, CUDA}) \cup {CPU}
           /\ ({TRT, CUDA} \subseteq available_providers
                 => names = <<TRT, CUDA, CPU>>)
           /\ (available_providers \cap {TRT, CUDA} = {} => names = <<CPU>>)
    /\ pc = "resolve" => ENABLED ResolveProviders

C2_Witness ==
    /\ ListBuilt
    /\ available_providers = {TRT, CUDA, OtherProvider}
    /\ Names(providers) = <<TRT, CUDA, CPU>>

\* C3: a request that arrives while the session is not ready (is_ready false
\* or no session held) ends in the not-ready answer without a session.run
\* being issued for it, and no request is in session.run before the session
\* is ready.
C3_NotReadyNeverRuns ==
    \A r \in Reqs :
        /\ (req[r].pc # "idle" /\ ~req[r].ready_at_call) =>
              /\ req[r].pc = "done"
              /\ req[r].status = StatusUnavailable
              /\ ~req[r].ran
        /\ req[r].ran => req[r].ready_at_call
        /\ req[r].pc = "running" => is_ready /\ session # NoSession

C3_Witness ==
    /\ pc = "warmup"
    /\ session # NoSession
    /\ \E r \in Reqs : req[r].pc = "done" /\ req[r].status = StatusUnavailable

\* C4: once load_model has returned is_ready is true, and once true it stays
\* true whatever requests succeed or fail afterwards.
C4_ReadyStays ==
    [][/\ pc' \in {"loaded", "serving"} => is_ready'
       /\ is_ready => is_ready']_vars

C4_Witness ==
    /\ is_ready
    /\ ever_failed
    /\ \E r \in Reqs : req[r].pc = "done" /\ req[r].status = StatusInternalError
    /\ \E r \in Reqs : Served(r)

\* C5: is_ready is false until a session has been constructed and three
\* warm-up runs have completed on it, and it is not set when load_model
\* fails.
C5_ReadyOnlyAfterWarmup ==
    /\ is_ready => session # NoSession /\ session.warm = 3
    /\ pc \in {"start", "makedirs", "probe", "resolve", "create", "readback",
               "warmup", "failed"} => ~is_ready
    /\ session.warm <= 3

C5_Witness ==
    /\ pc = "loaded"
    /\ is_ready
    /\ session.warm = 3

\* C6: when the model file cannot be loaded, session construction raises out
\* of load_model and lifespan: no session is held, is_ready stays false and
\* lifespan never reaches its yield.
C6_StartupFailure ==
    ~model_ok =>
        /\ ~is_ready
        /\ session = NoSession
        /\ active_provider = ""
        /\ ~serving
        /\ pc \in {"start", "makedirs", "probe", "resolve", "create", "failed"}

C6_Witness ==
    /\ ~model_ok
    /\ pc = "failed"
    /\ engine_exists
    /\ cache_dir_exists

\* C7: when session.run raises inside a request on a ready session, that
\* request is answered 500 and nothing else changes: is_ready,
\* active_provider, the session and the other requests are as before, and
\* requests that arrive afterwards are admitted as before.
C7_FailureIsLocal ==
    [][\A r \in Reqs :
        /\ (req[r].pc = "running" /\ req'[r].pc = "done"
                /\ req'[r].status # StatusOk) =>
              /\ req'[r].status = StatusInternalError
              /\ is_ready' = is_ready
              /\ is_ready
              /\ active_provider' = active_provider
              /\ session' = session
              /\ \A q \in Reqs \ {r} : req'[q] = req[q]
        /\ (ever_failed /\ req[r].pc = "idle" /\ req'[r].pc # "idle") =>
              req'[r].pc = "running"]_vars

C7_Witness ==
    /\ ever_failed
    /\ is_ready
    /\ \E r \in Reqs :
          /\ req[r].pc = "done"
          /\ req[r].cause = "runtime"
          /\ \E q \in Reqs \ {r} : req[q].pc = "running"

\* C8: a request that arrives while the session is not ready is answered 503
\* and never 500; a request admitted on a ready session ends in 200 or in the
\* 500 of a failed inference, never in 503; the engine's own not-ready
\* RuntimeError never reaches the handler's except.
C8_DistinctErrors ==
    \A r \in Reqs :
        req[r].pc = "done" =>
            /\ ~req[r].ready_at_call => req[r].status = StatusUnavailable
            /\ req[r].ready_at_call =>
                  req[r].status \in {StatusOk, StatusInternalError}
            /\ req[r].cause # "engine_not_ready"
            /\ req[r].status = StatusUnavailable
                  <=> req[r].cause = "handler_not_ready"
            /\ req[r].status = StatusInternalError => req[r].cause = "runtime"

C8_Witness ==
    /\ \E r \in Reqs : req[r].pc = "done" /\ req[r].status = StatusUnavailable
    /\ \E r \in Reqs : req[r].pc = "done" /\ req[r].status = StatusInternalError

\* C9: a request with L ids and L mask values that a ready session serves
\* gets shape [L, num_labels] and L rows of num_labels values each.
C9_ShapeLaw ==
    \A r \in Reqs :
        Served(r) =>
            /\ Len(req[r].attention_mask) = Batch(r)
            /\ req[r].shape = <<Batch(r), num_labels>>
            /\ Len(req[r].logits) = Batch(r)
            /\ \A i \in 1..Len(req[r].logits) :
                  Len(req[r].logits[i]) = num_labels

C9_Witness ==
    \E r \in Reqs :
        /\ Served(r)
        /\ Batch(r) = 2
        /\ num_labels = 3

\* C10 as stated: the array engine.infer returns has shape [L, num_labels],
\* the batch dimension already stripped.
C10_Original ==
    \A r \in Reqs :
        Served(r) => req[r].ret.shape = <<Batch(r), num_labels>>

\* C10 amended: engine.infer gives both inputs a batch dimension of 1 and
\* returns the first output with its batch dimension still on it, shape
\* [1, L, num_labels]; the handler strips it when it builds the response.
C10_EngineKeepsBatch ==
    \A r \in Reqs :
        /\ req[r].pc = "running" =>
              LET inputs == EngineInputs(req[r].input_ids, req[r].attention_mask)
              IN /\ inputs.input_ids.shape = <<1, Len(req[r].input_ids)>>
                 /\ inputs.attention_mask.shape
                       = <<1, Len(req[r].attention_mask)>>
        /\ Served(r) =>
              /\ req[r].ret.shape = <<1, Batch(r), num_labels>>
              /\ Len(req[r].ret.data) = 1
              /\ req[r].shape = Tail(req[r].ret.shape)
              /\ req[r].logits = req[r].ret.data[1]

C10_Witness ==
    \E r \in Reqs :
        /\ Served(r)
        /\ Batch(r) = 2
        /\ req[r].ret.shape = <<1, 2, num_labels>>
        /\ req[r].shape = <<2, num_labels>>

\* C11: with two requests of different lengths in flight on a ready session,
\* a request that returns gets the result of its own input, [L, num_labels]
\* for its own L, and a step of one request changes neither the other
\* request nor is_ready, active_provider or the session.
C11_ConcurrentCallsIndependent ==
    [][\A r \in Reqs :
        req'[r] # req[r] =>
            /\ \A q \in Reqs \ {r} : req'[q] = req[q]
            /\ <<session, is_ready, active_provider>>'
                  = <<session, is_ready, active_provider>>
            /\ (req[r].pc = "running" /\ req'[r].status = StatusOk) =>
                  /\ req'[r].input_ids = req[r].input_ids
                  /\ req'[r].ret.shape
                        = <<1, Len(req[r].input_ids), num_labels>>
                  /\ req'[r].shape = <<Len(req[r].input_ids), num_labels>>
                  /\ Len(req'[r].logits) = Len(req[r].input_ids)]_vars

C11_Witness ==
    \E r, q \in Reqs :
        /\ Served(r)
        /\ Batch(r) = 1
        /\ req[r].shape = <<1, num_labels>>
        /\ req[q].pc = "running"
        /\ Len(req[q].input_ids) = 2
        /\ Len(req[q].attention_mask) = 2

\* C12: whenever the health query is answered, before the engine exists,
\* during construction and warm-up and afterwards, model_loaded is the
\* current is_ready (false without an engine), status is "healthy" exactly
\* when is_ready is true and "not_ready" otherwise, and provider is the
\* current active_provider (empty without an engine).
C12_HealthTruthful ==
    [][health' # health =>
        /\ health'.model_loaded = (engine_exists /\ is_ready)
        /\ health'.status \in {"healthy", "not_ready"}
        /\ health'.status = "healthy" <=> (engine_exists /\ is_ready)
        /\ engine_exists => health'.provider = active_provider
        /\ ~engine_exists => health'.provider = "" /\ ~health'.model_loaded]_vars

C12_Witness ==
    /\ pc = "warmup"
    /\ ~is_ready
    /\ session.sid = 1
    /\ health = [status |-> "not_ready", model_loaded |-> FALSE,
                 provider |-> active_provider]
    /\ active_provider = CUDA

\* C13: the cache directory exists before the session is constructed; the
\* makedirs step creates it when it is missing, passes without error when it
\* is there, and load_model goes on to construction either way.
C13_CacheDirFirst ==
    [][/\ (pc = "makedirs" /\ pc' # pc) => (pc' = "probe" /\ cache_dir_exists')
       /\ pc = "makedirs" => ENABLED MakeDirs
       /\ pc' \in {"probe", "resolve", "create", "readback", "warmup"}
             => cache_dir_exists'
       /\ session' # session => cache_dir_exists
       /\ cache_dir_exists => cache_dir_exists']_vars

C13_Witness ==
    /\ pc = "readback"
    /\ cache_dir_exists
    /\ session.sid = 1

\* C14: once it has been read back, active_provider is the first provider
\* the runtime reports for the session ("Unknown" when it reports none), not
\* the first provider that was asked for.
C14_ActiveIsReported ==
    /\ (session # NoSession /\ pc # "readback") =>
          active_provider = IF Len(session.reported) = 0
                               THEN "Unknown"
                               ELSE Head(session.reported)
    /\ (pc = "warmup" /\ Len(session.reported) > 0
           /\ Head(session.reported) # providers[1].name) =>
          active_provider # providers[1].name

C14_Witness ==
    /\ pc = "warmup"
    /\ providers[1].name = TRT
    /\ session.reported = <<CPU>>
    /\ active_provider = CPU

\* C16: load_model comes to an end: with the session constructed and every
\* warm-up run returning it ends with is_ready true; the only other end is
\* an exception out of the constructor or a warm-up run.
C16_EventuallyReady ==
    <>((pc \in {"loaded", "serving"} /\ is_ready) \/ pc = "failed")

C16_Witness ==
    /\ pc = "serving"
    /\ is_ready
    /\ session.warm = 3
    /\ model_ok

\* C17: the TensorRT entry carries the engine's fp16 flag, engine caching
\* switched on, the cache directory load_model has made sure of and a
\* workspace of 2 GiB (2147483648 bytes = 2097152 KiB); the CUDA entry has
\* device 0; the CPU entry has no options.
C17_ProviderOptions ==
    ListBuilt =>
        \A i \in 1..Len(providers) :
            /\ providers[i].name = TRT =>
                  /\ providers[i].options.trt_fp16_enable = enable_fp16
                  /\ providers[i].options.trt_engine_cache_enable = TRUE
                  /\ providers[i].options.trt_engine_cache_path = trt_cache_path
                  /\ cache_dir_exists
                  /\ providers[i].options.trt_max_workspace_kib = 2097152
            /\ providers[i].name = CUDA => providers[i].options.device_id = 0
            /\ providers[i].name = CPU => providers[i].options = NoOptions

C17_Witness ==
    /\ ListBuilt
    /\ ~enable_fp16
    /\ Names(providers) = <<TRT, CUDA, CPU>>
    /\ providers[1].options.trt_fp16_enable = FALSE

\* The lifecycle state a position of load_model stands for: 0 Unconstructed,
\* 1 Constructing, 2 WarmingUp, 3 Ready.
Phase(p) ==
    CASE p = "start" -> 0
      [] p \in {"makedirs", "probe", "resolve", "create"} -> 1
      [] p \in {"readback", "warmup"} -> 2
      [] p \in {"loaded", "serving"} -> 3

\* C15: under any sequence of load_model and infer calls on one engine, the
\* lifecycle Unconstructed -> Constructing -> WarmingUp -> Ready never steps
\* back, and a ready engine never goes into construction or warm-up again.
C15_OneDirectional ==
    [][/\ (pc # "failed" /\ pc' # "failed") => Phase(pc') >= Phase(pc)
       /\ is_ready =>
             pc' \notin {"makedirs", "probe", "resolve", "create", "readback",
                         "warmup"}]_vars

\* C18: under any sequence of load_model and infer calls on one engine,
\* is_ready true means that the session infer would use has completed its
\* three warm-up runs, so infer is only admitted on a warmed session.
C18_ReadyMeansWarmed ==
    /\ is_ready => session # NoSession /\ session.warm = 3
    /\ (~HandlerNotReady /\ ~EngineNotReady) => session.warm = 3
    /\ \A r \in Reqs : req[r].pc = "running" => session # NoSession

\* C19: is_ready true implies that a session is held and active_provider is
\* not empty: the health query never answers "healthy" with an empty
\* provider, and the engine's session-is-None test cannot be what rejects a
\* call once is_ready is true.
C19_ReadyHasSession ==
    /\ is_ready => session # NoSession /\ active_provider # ""
    /\ HealthResponse.status = "healthy" => HealthResponse.provider # ""
    /\ is_ready => ~EngineNotReady

C19_Witness ==
    /\ is_ready
    /\ session.sid = 2
    /\ session.reported = <<>>
    /\ active_provider = "Unknown"
    /\ HealthResponse.status = "healthy"

\* C20: a load_model that fails leaves this state: when the constructor
\* raises, session, is_ready and active_provider are what they were before
\* the call and the cache directory exists; when a warm-up run raises, the
\* new session and its active_provider are recorded, is_ready is not set by
\* the call, and the health query then answers a non-empty provider with
\* status "not_ready".
C20_FailedLoadState ==
    [][/\ pc \in {"makedirs", "probe", "resolve"} =>
             <<session, is_ready, active_provider>>'
                = <<session, is_ready, active_provider>>
       /\ (pc = "create" /\ pc' = "failed") =>
             /\ <<session, is_ready, active_provider>>'
                   = <<session, is_ready, active_provider>>
             /\ cache_dir_exists'
       /\ (pc = "warmup" /\ pc' = "failed") =>
             /\ session' # NoSession
             /\ session'.warm < 3
             /\ active_provider' = ActiveProviderOf(session'.reported)
             /\ is_ready' = is_ready
             /\ HealthResponse'.provider # ""
             /\ HealthResponse'.status = "not_ready"]_vars
====
